---- MODULE Spec2Model ----
(***************************************************************************)
(* A model of the quota-tracking and credential-lifecycle core of          *)
(* youtube-mcp-server: utils/quota.py (QuotaTracker) and auth.py           *)
(* (YouTubeAuth).                                                          *)
(***************************************************************************)
EXTENDS Integers, Sequences, FiniteSets, TLC

(***************************************************************************)
(* Bounds of the model.                                                    *)
(***************************************************************************)
\* The wall clock runs over the instants 0..MaxNow.
MaxNow == 3
\* Clock instants per calendar day.
TicksPerDay == 2
\* consume() accepts negative counts, so _used has no lower bound in the
\* code; the model stops debiting below -MaxDebt.
MaxDebt == 2
\* Instants for which an access token stays unexpired after it is issued.
TokenLife == 2
\* Access tokens the authorization server issues in one run.
MaxIssued == 3
\* Tool-handler calls in one run.
MaxCalls == 1

(***************************************************************************)
(* Inputs.                                                                 *)
(***************************************************************************)
\* daily_limit arguments given to QuotaTracker(...).
DailyLimits == {50, 150}
\* Operation labels passed to consume(): the nine labels of QUOTA_COSTS and
\* one label that is not in the table.
TableLabels ==
    {"list", "insert", "update", "delete", "search", "video_insert",
     "caption_insert", "caption_update", "thumbnail_set"}
UnknownLabel == "some_unknown_op"
Labels == TableLabels \cup {UnknownLabel}
\* count arguments passed to consume().
Counts == {-1, 0, 1, 3}
\* The host's local timezone, as its offset in clock instants from the
\* reference timezone (Pacific Time): 0 is a host on Pacific Time.
HostOffsets == {0, 1}
\* Callers that run consume() concurrently, and what they pass to it.
Threads == {1, 2}
ConcurrentLabels == {"insert", "search"}
ConcurrentCounts == {1, 2}

(***************************************************************************)
(* State.                                                                  *)
(***************************************************************************)
VARIABLES
    QUOTA_COSTS,   \* the module-level cost table (a mutable dict)
    daily_limit,   \* QuotaTracker.daily_limit
    _used,         \* QuotaTracker._used
    _date,         \* QuotaTracker._date, as a day number
    now,           \* the wall clock, an instant in reference time
    tz,            \* the host's timezone offset
    qpc,           \* where the caller is inside status(): "idle" or "status"
    qview,         \* status(): the value read for "used" (line 67)
    qcall,         \* the last tracker operation and what it gave
    cpc,           \* concurrent callers: where each is inside consume()
    ccost,         \* concurrent callers: the local variable cost
    ctmp,          \* concurrent callers: the value loaded by "+=" (line 52)
    cstale,        \* history: _used was written by another caller since
                   \* this caller's check
    raced,         \* history: some caller has stored after a stale check
    token_file,    \* the file at YouTubeAuth.token_path
    client_secret_path,    \* YouTubeAuth.client_secret_path
    client_secret_exists,  \* whether client_secret_path exists
    api_key,       \* YouTubeAuth.api_key
    _credentials,  \* YouTubeAuth._credentials
    issued,        \* how many access tokens the authorization server has issued
    acall,         \* the last YouTubeAuth operation and what it gave
    wpc,           \* where a caller is inside _save_token: "idle" or "opened"
    wcreds,        \* _save_token's argument creds
    wold,          \* history: the token file as that _save_token found it
    sread,         \* the last _load_token of a second caller
    init_args,     \* the arguments YouTubeAuth(...) is constructed with
    environ,       \* os.environ at construction
    config_dir,    \* YouTubeAuth.config_dir
    token_path,    \* YouTubeAuth.token_path
    handler,       \* the tool handler called last ("none": none yet)
    hinp,          \* what that call was given and what the API answers it
    hprog,         \* the steps of the handler still to run
    hlog,          \* history: what the handler has done in this call
    hresult,       \* "running", or how the call ended
    hstart,        \* history: the tracker as the call found it
    hcalls         \* history: how many handler calls there have been

qvars == <<QUOTA_COSTS, daily_limit, _used, _date, now, tz, qpc, qview, qcall>>
cvars == <<cpc, ccost, ctmp, cstale, raced>>
avars == <<token_file, client_secret_path, client_secret_exists, api_key, _credentials, issued, acall>>

svars == <<wpc, wcreds, wold, sread>>
nvars == <<init_args, environ, config_dir, token_path>>
hvars == <<handler, hinp, hprog, hlog, hresult, hstart, hcalls>>

vars == <<qvars, cvars, avars, svars, nvars, hvars>>

(***************************************************************************)
(* auth.py                                                                 *)
(***************************************************************************)
\* A str-or-None value: Unset is None (an argument not passed, an
\* environment variable not set); "" is the empty string. Both are falsy.
Unset == "<None>"
Falsy(x) == x \in {Unset, ""}

\* DEFAULT_CONFIG_DIR and TOKEN_FILE
DEFAULT_CONFIG_DIR == "~/.youtube-mcp"
TOKEN_FILE == "token.json"
\* Path.__truediv__: dir / name
JoinPath(dir, name) == dir \o "/" \o name

\* The arguments of YouTubeAuth(...) and the two environment variables
\* __init__ reads.
InitArgs(secret, dir, key) ==
    [client_secret_path |-> secret, config_dir |-> dir, api_key |-> key]
Environ(secret, key) ==
    [YOUTUBE_MCP_CLIENT_SECRET |-> secret, YOUTUBE_API_KEY |-> key]

\* Mutant: the environment variable is preferred to the argument.
YouTubeAuth_init_env_first(args, env) ==
    LET dir == IF ~Falsy(args.config_dir) THEN args.config_dir
               ELSE DEFAULT_CONFIG_DIR
    IN  [config_dir |-> dir,
         token_path |-> JoinPath(dir, TOKEN_FILE),
         client_secret_path |->
            IF ~Falsy(env.YOUTUBE_MCP_CLIENT_SECRET)
            THEN env.YOUTUBE_MCP_CLIENT_SECRET
            ELSE IF ~Falsy(args.client_secret_path)
            THEN args.client_secret_path
            ELSE JoinPath(dir, "client_secret.json"),
         api_key |-> IF ~Falsy(env.YOUTUBE_API_KEY) THEN env.YOUTUBE_API_KEY
                     ELSE args.api_key]
\* YouTubeAuth.__init__: the attributes it sets (self._credentials apart).
YouTubeAuth_init(args, env) ==
    LET dir == IF ~Falsy(args.config_dir) THEN args.config_dir
               ELSE DEFAULT_CONFIG_DIR
    IN  [config_dir |-> dir,
         token_path |-> JoinPath(dir, TOKEN_FILE),
         client_secret_path |->
            IF ~Falsy(args.client_secret_path) THEN args.client_secret_path
            ELSE IF ~Falsy(env.YOUTUBE_MCP_CLIENT_SECRET)
            THEN env.YOUTUBE_MCP_CLIENT_SECRET
            ELSE JoinPath(dir, "client_secret.json"),
         api_key |-> IF ~Falsy(args.api_key) THEN args.api_key
                     ELSE env.YOUTUBE_API_KEY]

\* The object is as __init__ leaves it when called with args under env.
Constructed(args, env) ==
    /\ init_args = args
    /\ environ = env
    /\ config_dir = YouTubeAuth_init(args, env).config_dir
    /\ token_path = YouTubeAuth_init(args, env).token_path
    /\ client_secret_path = YouTubeAuth_init(args, env).client_secret_path
    /\ api_key = YouTubeAuth_init(args, env).api_key

\* The constructions the credential lifecycle is explored under: with and
\* without an explicit client-secret path, with and without an API key.
AuthConstructions ==
    {InitArgs(secret, Unset, key) :
        secret \in {Unset, "/srv/yt/client_secret.json"},
        key \in {Unset, "explicit-key"}}

\* SCOPES, by the last segment of each scope's URL.
SCOPES ==
    {"youtube.readonly", "youtube", "youtube.upload", "yt-analytics.readonly",
     "yt-analytics-monetary.readonly"}

\* A Credentials object: token and refresh_token are 0 for None, expiry is
\* the empty set for None and {t} for the instant t.
Creds(token, refresh_token, scopes, expiry) ==
    [token |-> token, refresh_token |-> refresh_token, scopes |-> scopes,
     expiry |-> expiry]
\* None, where the code holds None in place of a Credentials object.
None == Creds(0, 0, {}, {})

\* The token file: absent, not parseable, or the JSON of a Credentials.
Absent == [kind |-> "absent", token |-> 0, refresh_token |-> 0, scopes |-> {},
           expiry |-> {}]
Garbage == [kind |-> "garbage", token |-> 0, refresh_token |-> 0,
            scopes |-> {}, expiry |-> {}]
\* Mutant: the refresh token is left out of the JSON.
to_json_without_refresh_token(creds) ==
    [kind |-> "json", token |-> creds.token, refresh_token |-> 0,
     scopes |-> creds.scopes, expiry |-> creds.expiry]
\* creds.to_json(), as far as from_authorized_user_file reads it back.
to_json(creds) ==
    [kind |-> "json", token |-> creds.token,
     refresh_token |-> creds.refresh_token, scopes |-> creds.scopes,
     expiry |-> creds.expiry]

\* creds.expired at instant t
Expired(creds, t) == \E e \in creds.expiry : t >= e
\* Mutant: a Credentials without a refresh token does not count as valid.
ValidNeedsRefreshToken(creds, t) ==
    creds.token # 0 /\ ~Expired(creds, t) /\ creds.refresh_token # 0
\* creds.valid at instant t
Valid(creds, t) == creds.token # 0 /\ ~Expired(creds, t)

\* Credentials.from_authorized_user_file(path, SCOPES): the scopes of the
\* object are the SCOPES passed in, not the scopes recorded in the file.
from_authorized_user_file(file, scopes) ==
    Creds(file.token, file.refresh_token, scopes, file.expiry)

\* _load_token
_load_token(file) ==
    IF file.kind = "absent" THEN None
    ELSE IF file.kind = "garbage" THEN None
    ELSE from_authorized_user_file(file, SCOPES)

\* creds.refresh(Request()) when it succeeds at instant t: a new access
\* token and expiry, the same refresh token.
Refreshed(creds, t, id) ==
    [creds EXCEPT !.token = id, !.expiry = {t + TokenLife}]
\* flow.run_local_server(port=0) when it succeeds at instant t.
Consented(t, id) == Creds(id, id, SCOPES, {t + TokenLife})

\* What the calls authenticate() makes outside the process can do: each
\* either succeeds ("ok") or raises the exception named. _save_token raises
\* from mkdir or from opening the file, before the file is touched; a write
\* seen part-way is the subject of SpecStore.
Environments ==
    [refresh : {"ok", "RefreshError"}, save_refreshed : {"ok", "OSError"},
     flow : {"ok", "FlowError"}, save_consented : {"ok", "OSError"}]

\* Mutant: the refresh attempt's exception is let through as it is.
RefreshExceptReraises(exc) == exc
\* The except clause of the refresh attempt (lines 92-94): the exception is
\* dropped and authenticate() goes on.
RefreshExcept(exc) == "pass"
\* Mutant: the consent flow's exception is let through as it is.
FlowExceptReraises(exc) == exc
\* The except clause of the consent flow (lines 113-114).
FlowExcept(exc) == "AuthError"

\* The message of an AuthError: an f-string's text and the value put into it.
Msg(text, arg) == [text |-> text, arg |-> arg]
NoMsg == Msg("-", "-")

\* What a YouTubeAuth call gave: how it ended (result: "returned" or the
\* kind of error raised), the Credentials returned, the message and cause of
\* an AuthError, the state it leaves (file, cache), and what it did on the
\* way (refresh, consent: "none", "ok" or the exception; wrote: the token
\* file was written; minted: the server issued a token).
Outcome(result, cred, msg, cause, file, cache, refresh, consent, wrote, minted) ==
    [result |-> result, cred |-> cred, msg |-> msg, cause |-> cause,
     file |-> file, cache |-> cache, refresh |-> refresh, consent |-> consent,
     wrote |-> wrote, minted |-> minted]

\* The client-secret file as authenticate() sees it: its path and whether a
\* file exists there.
ClientSecret(path, exists) == [path |-> path, exists |-> exists]

\* Mutant: the failure removes the token file.
MissingClientSecretDeletesToken(path, file, cache, refresh, minted) ==
    Outcome("AuthError", None, Msg("client_secret.json not found at", path),
            "-", Absent, cache, refresh, "none", FALSE, minted)
\* Mutant: the failure resets self._credentials to None.
MissingClientSecretDropsCache(path, file, cache, refresh, minted) ==
    Outcome("AuthError", None, Msg("client_secret.json not found at", path),
            "-", file, None, refresh, "none", FALSE, minted)
\* authenticate(), lines 97-103: the AuthError raised when no file exists at
\* client_secret_path. Neither the token file nor self._credentials is
\* assigned on the way.
MissingClientSecret(path, file, cache, refresh, minted) ==
    Outcome("AuthError", None, Msg("client_secret.json not found at", path),
            "-", file, cache, refresh, "none", FALSE, minted)

\* Mutant: the except clause resets self._credentials to None.
FlowRaisedDropsCache(exc, file, cache, refresh, consent, minted) ==
    Outcome(FlowExcept(exc), None, Msg("OAuth flow failed", exc), exc, file,
            None, refresh, consent, FALSE, minted)
\* authenticate(), lines 113-114: an exception exc raised inside the try
\* block of the consent flow (lines 105-112) leaves as an AuthError whose
\* cause is exc; consent is how far the flow itself got.
FlowRaised(exc, file, cache, refresh, consent, minted) ==
    Outcome(FlowExcept(exc), None, Msg("OAuth flow failed", exc), exc, file,
            cache, refresh, consent, FALSE, minted)

\* Mutant: the consent flow caches and returns the new Credentials without
\* saving it.
ConsentFlowWithoutSave(file, cache, secret, t, id, env, refresh, minted) ==
    IF ~secret.exists
    THEN MissingClientSecret(secret.path, file, cache, refresh, minted)
    ELSE IF env.flow # "ok"
    THEN FlowRaised(env.flow, file, cache, refresh, env.flow, minted)
    ELSE Outcome("returned", Consented(t, id), NoMsg, "-", file,
                 Consented(t, id), refresh, "ok", FALSE, TRUE)
\* authenticate(), lines 96-114: the client-configuration check and the
\* consent flow. refresh is what the refresh attempt before it did, minted
\* whether that attempt was issued a token.
ConsentFlow(file, cache, secret, t, id, env, refresh, minted) ==
    IF ~secret.exists
    THEN MissingClientSecret(secret.path, file, cache, refresh, minted)
    ELSE IF env.flow # "ok"
    THEN FlowRaised(env.flow, file, cache, refresh, env.flow, minted)
    ELSE IF env.save_consented # "ok"
    THEN FlowRaised(env.save_consented, file, cache, refresh, "ok", TRUE)
    ELSE Outcome("returned", Consented(t, id), NoMsg, "-",
                 to_json(Consented(t, id)), Consented(t, id), refresh, "ok",
                 TRUE, TRUE)

\* authenticate(), lines 86-94: the refresh attempt on a loaded, expired
\* Credentials that holds a refresh token.
RefreshAttempt(creds, file, cache, secret, t, id, env) ==
    IF env.refresh # "ok"
    THEN IF RefreshExcept(env.refresh) = "pass"
         THEN ConsentFlow(file, cache, secret, t, id, env, env.refresh, FALSE)
         ELSE Outcome(env.refresh, None, NoMsg, env.refresh, file, cache,
                      env.refresh, "none", FALSE, FALSE)
    ELSE IF env.save_refreshed # "ok"
    THEN IF RefreshExcept(env.save_refreshed) = "pass"
         THEN ConsentFlow(file, cache, secret, t, id + 1, env, "ok", TRUE)
         ELSE Outcome(env.save_refreshed, None, NoMsg, env.save_refreshed, file,
                      cache, "ok", "none", FALSE, TRUE)
    ELSE Outcome("returned", Refreshed(creds, t, id), NoMsg, "-",
                 to_json(Refreshed(creds, t, id)), Refreshed(creds, t, id),
                 "ok", "none", TRUE, TRUE)

\* authenticate()
authenticate(file, cache, secret, t, id, env) ==
    LET creds == _load_token(file)
    IN  IF creds # None /\ Valid(creds, t)
        THEN Outcome("returned", creds, NoMsg, "-", file, creds, "none", "none",
                     FALSE, FALSE)
        ELSE IF creds # None /\ Expired(creds, t) /\ creds.refresh_token # 0
        THEN RefreshAttempt(creds, file, cache, secret, t, id, env)
        ELSE ConsentFlow(file, cache, secret, t, id, env, "none", FALSE)

\* Mutant: the cached Credentials is returned without the validity test.
credentialsIgnoringExpiry(file, cache, secret, t, id, env) ==
    IF cache # None
    THEN Outcome("returned", cache, NoMsg, "-", file, cache, "none", "none",
                 FALSE, FALSE)
    ELSE authenticate(file, cache, secret, t, id, env)
\* The credentials property
credentials(file, cache, secret, t, id, env) ==
    IF cache # None /\ Valid(cache, t)
    THEN Outcome("returned", cache, NoMsg, "-", file, cache, "none", "none",
                 FALSE, FALSE)
    ELSE authenticate(file, cache, secret, t, id, env)

\* Mutant: a client is built whether or not an API key is configured.
build_public_youtube_service_unkeyed(key, file, cache) ==
    Outcome("returned", None, NoMsg, "-", file, cache, "none", "none", FALSE,
            FALSE)
\* build_public_youtube_service(): the client it returns carries the API
\* key and no Credentials (cred is None).
build_public_youtube_service(key, file, cache) ==
    IF Falsy(key)
    THEN Outcome("AuthError", None, Msg("No API key available", "-"), "-",
                 file, cache, "none", "none", FALSE, FALSE)
    ELSE Outcome("returned", None, NoMsg, "-", file, cache, "none", "none",
                 FALSE, FALSE)

\* The dict status() returns: keys are the keys it holds; an entry whose key
\* it does not hold is FALSE or empty.
StatusDict(keys, auth, scopes, expired, refreshable, token, secret) ==
    [keys |-> keys, authenticated |-> auth, scopes |-> scopes,
     expired |-> expired, has_refresh_token |-> refreshable,
     token_exists |-> token, client_secret_exists |-> secret]
NoDict == StatusDict({}, FALSE, {}, FALSE, FALSE, FALSE, FALSE)

\* YouTubeAuth.status()
YouTubeAuth_status(file, secret, t) ==
    LET creds == _load_token(file)
    IN  IF creds # None /\ Valid(creds, t)
        THEN StatusDict({"authenticated", "scopes", "token_path", "expired"},
                        TRUE, creds.scopes, FALSE, FALSE, FALSE, FALSE)
        ELSE IF creds # None /\ Expired(creds, t)
        THEN StatusDict({"authenticated", "expired", "has_refresh_token",
                         "token_path"},
                        FALSE, {}, TRUE, creds.refresh_token # 0, FALSE, FALSE)
        ELSE StatusDict({"authenticated", "token_exists",
                         "client_secret_exists", "client_secret_path"},
                        FALSE, {}, FALSE, FALSE, file.kind # "absent", secret)

\* Mutant: status() keeps the Credentials it loaded in self._credentials.
StatusOutcomeCaches(file, cache, t) ==
    Outcome("returned", None, NoMsg, "-", file, _load_token(file), "none",
            "none", FALSE, FALSE)
\* What status() does besides building its dict (lines 143-165): it calls
\* _load_token and the two exists() tests, and neither creds.refresh, the
\* consent flow, _save_token nor an assignment to self._credentials.
StatusOutcome(file, cache, t) ==
    Outcome("returned", None, NoMsg, "-", file, cache, "none", "none", FALSE,
            FALSE)

\* The highest token id in an outcome's Credentials, file and cache.
Minted(r) ==
    LET ids == {r.cred.token, r.file.token, r.cache.token}
    IN  CHOOSE m \in ids : \A n \in ids : n <= m

\* The token file and self._credentials as a call finds them.
Pre(file, cache) == [file |-> file, cache |-> cache]

\* What acall records: the operation, the instant it ran at, the state it
\* found (pre), its outcome and, of status(), the dict returned.
ACall(op, at, pre, r, dict) ==
    [op |-> op, at |-> at, pre |-> pre, r |-> r, dict |-> dict]
NoOutcome == Outcome("none", None, NoMsg, "-", Absent, None, "none", "none",
                     FALSE, FALSE)

\* The token files a YouTubeAuth can find at construction: none, an
\* unparseable one, or the JSON of a Credentials with or without access
\* token, refresh token and expiry, granted all of SCOPES or only one.
PersistedFiles ==
    {Absent, Garbage} \cup
    {to_json(Creds(tok, ref, sc, ex)) :
        tok \in {0, 1}, ref \in {0, 1},
        sc \in {SCOPES, {"youtube.readonly"}},
        ex \in {{}, {0}, {TokenLife}}}

\* What sread records of a _load_token: the file content it read (seen),
\* whether a _save_token was under way (during), and the token file before
\* that _save_token (old) and the JSON it is writing (new).
StoreRead(seen, during, old, new) ==
    [seen |-> seen, during |-> during, old |-> old, new |-> new]

\* No _save_token is under way and nothing has been read.
SIdle ==
    /\ wpc = "idle"
    /\ wcreds = None
    /\ wold = Absent
    /\ sread = StoreRead(Absent, FALSE, Absent, Absent)

\* YouTubeAuth(...) constructed.
AInit ==
    /\ token_file \in PersistedFiles
    /\ \E args \in AuthConstructions : Constructed(args, Environ(Unset, Unset))
    /\ client_secret_exists \in BOOLEAN
    /\ _credentials = None
    /\ issued = 1
    /\ acall = ACall("none", 0, Pre(Absent, None), NoOutcome, NoDict)
    /\ SIdle

\* A YouTubeAuth that is not used.
AIdle ==
    /\ token_file = Absent
    /\ Constructed(InitArgs(Unset, Unset, Unset), Environ(Unset, Unset))
    /\ client_secret_exists = FALSE
    /\ _credentials = None
    /\ issued = 1
    /\ acall = ACall("none", 0, Pre(Absent, None), NoOutcome, NoDict)
    /\ SIdle

\* The state an outcome leaves.
Leave(op, r) ==
    /\ Minted(r) <= MaxIssued
    /\ token_file' = r.file
    /\ _credentials' = r.cache
    /\ issued' = IF Minted(r) > issued THEN Minted(r) ELSE issued
    /\ acall' = ACall(op, now, Pre(token_file, _credentials), r, NoDict)
    /\ UNCHANGED <<client_secret_path, client_secret_exists, api_key>>
    /\ UNCHANGED <<qvars, cvars, svars, nvars, hvars>>

\* A call of authenticate().
CallAuthenticate ==
    \E env \in Environments :
        Leave("authenticate",
              authenticate(token_file, _credentials,
                           ClientSecret(client_secret_path,
                                        client_secret_exists),
                           now, issued + 1, env))

(***************************************************************************)
(* utils/quota.py                                                          *)
(***************************************************************************)
\* QUOTA_COSTS as the module defines it.
QuotaCostTable ==
    [list |-> 1, insert |-> 50, update |-> 50, delete |-> 50, search |-> 100,
     video_insert |-> 1600, caption_insert |-> 400, caption_update |-> 450,
     thumbnail_set |-> 50]

\* date.today(): the calendar date of instant t on a host at offset off.
LocalDate(t, off) == (t + off) \div TicksPerDay
Today == LocalDate(now, tz)

\* Mutant: a label outside the table costs nothing.
QuotaCostUnknownFree(table, operation) ==
    IF operation \in DOMAIN table THEN table[operation] ELSE 0
\* QUOTA_COSTS.get(operation, 1)
QuotaCost(table, operation) ==
    IF operation \in DOMAIN table THEN table[operation] ELSE 1

\* Mutant: the rollover updates the date and keeps the count.
ResetUsedKeepsCount(u, d, today) == u
\* _reset_if_new_day: the new value of _used.
ResetUsed(u, d, today) == IF today # d THEN 0 ELSE u
\* _reset_if_new_day: the new value of _date.
ResetDate(d, today) == IF today # d THEN today ELSE d

\* Mutant: the test forgets the cost of the request.
ExhaustedIgnoringCost(u, cost, limit) == u > limit
\* Mutant: the test rejects the request that lands exactly on the limit.
ExhaustedAtLimit(u, cost, limit) == u + cost >= limit
\* Mutant: the test lets a request through one unit past the limit.
ExhaustedOnePast(u, cost, limit) == u + cost > limit + 1
\* consume: the rejection test.
Exhausted(u, cost, limit) == u + cost > limit
\* consume: the debit.
Debit(u, cost) == u + cost
\* Mutant: the error is built with its arguments swapped.
QuotaExhaustedErrorSwapped(u, limit) == [used |-> limit, limit |-> u]
\* QuotaExhaustedError(self._used, self.daily_limit)
QuotaExhaustedError(u, limit) == [used |-> u, limit |-> limit]

NoError == [used |-> 0, limit |-> 0]
NoStatus == [used |-> 0, remaining |-> 0, limit |-> 0, date |-> "-"]
\* str(self._date)
DateStr(d) == ToString(d)

\* What qcall records of an operation: the call, its outcome, and the
\* tracker as it stood when the call began (raw: _used; stale: whether the
\* stored date differed from today's).
Call(op, label, count, result, value, err, status, raw, stale) ==
    [op |-> op, label |-> label, count |-> count, result |-> result,
     value |-> value, err |-> err, status |-> status, raw |-> raw,
     stale |-> stale]

QInit ==
    /\ QUOTA_COSTS = QuotaCostTable
    /\ daily_limit \in DailyLimits
    /\ _used = 0
    /\ now = 0
    /\ tz \in HostOffsets
    /\ _date = LocalDate(0, tz)
    /\ qpc = "idle"
    /\ qview = 0
    /\ qcall = Call("none", "-", 0, "none", 0, NoError, NoStatus, 0, FALSE)

\* No caller is inside consume().
CIdle ==
    /\ cpc = [p \in Threads |-> "idle"]
    /\ ccost = [p \in Threads |-> 0]
    /\ ctmp = [p \in Threads |-> 0]
    /\ cstale = [p \in Threads |-> FALSE]
    /\ raced = FALSE

\* The wall clock advances. It may do so between any two steps of the caller.
Tick ==
    /\ now < MaxNow
    /\ now' = now + 1
    /\ UNCHANGED <<QUOTA_COSTS, daily_limit, _used, _date, tz, qpc, qview, qcall>>
    /\ UNCHANGED <<cvars, avars, svars, nvars, hvars>>

\* consume(operation, count)
Consume(operation, count) ==
    /\ qpc = "idle"
    /\ LET u0   == ResetUsed(_used, _date, Today)
           d0   == ResetDate(_date, Today)
           cost == QuotaCost(QUOTA_COSTS, operation) * count
       IN  /\ Debit(u0, cost) >= -MaxDebt
           /\ _date' = d0
           /\ IF Exhausted(u0, cost, daily_limit)
              THEN /\ _used' = u0
                   /\ qcall' = Call("consume", operation, count,
                                    "QuotaExhaustedError", 0,
                                    QuotaExhaustedError(u0, daily_limit),
                                    NoStatus, _used, Today # _date)
              ELSE /\ _used' = Debit(u0, cost)
                   /\ qcall' = Call("consume", operation, count, "ok", 0,
                                    NoError, NoStatus, _used, Today # _date)
    /\ UNCHANGED <<QUOTA_COSTS, daily_limit, now, tz, qpc, qview>>
    /\ UNCHANGED <<cvars, avars, svars, nvars, hvars>>

\* the used property
ReadUsed ==
    /\ qpc = "idle"
    /\ _used' = ResetUsed(_used, _date, Today)
    /\ _date' = ResetDate(_date, Today)
    /\ qcall' = Call("used", "-", 0, "ok", _used', NoError, NoStatus, _used,
                     Today # _date)
    /\ UNCHANGED <<QUOTA_COSTS, daily_limit, now, tz, qpc, qview>>
    /\ UNCHANGED <<cvars, avars, svars, nvars, hvars>>

\* the remaining property
ReadRemaining ==
    /\ qpc = "idle"
    /\ _used' = ResetUsed(_used, _date, Today)
    /\ _date' = ResetDate(_date, Today)
    /\ qcall' = Call("remaining", "-", 0, "ok", daily_limit - _used', NoError,
                     NoStatus, _used, Today # _date)
    /\ UNCHANGED <<QUOTA_COSTS, daily_limit, now, tz, qpc, qview>>
    /\ UNCHANGED <<cvars, avars, svars, nvars, hvars>>

\* status(), lines 65-67: the rollover check, then the read of self._used
\* for the "used" entry.
StatusBegin ==
    /\ qpc = "idle"
    /\ _used' = ResetUsed(_used, _date, Today)
    /\ _date' = ResetDate(_date, Today)
    /\ qview' = _used'
    /\ qpc' = "status"
    /\ qcall' = Call("status", "-", 0, "running", 0, NoError, NoStatus, _used,
                     Today # _date)
    /\ UNCHANGED <<QUOTA_COSTS, daily_limit, now, tz>>
    /\ UNCHANGED <<cvars, avars, svars, nvars, hvars>>

\* status(), lines 68-71: self.remaining (a property: it runs the rollover
\* check again), self.daily_limit and str(self._date), then the return.
StatusEnd ==
    /\ qpc = "status"
    /\ _used' = ResetUsed(_used, _date, Today)
    /\ _date' = ResetDate(_date, Today)
    /\ qpc' = "idle"
    /\ qview' = 0
    /\ qcall' = [qcall EXCEPT
                    !.result = "ok",
                    !.status = [used |-> qview,
                                remaining |-> daily_limit - _used',
                                limit |-> daily_limit,
                                date |-> DateStr(_date')]]
    /\ UNCHANGED <<QUOTA_COSTS, daily_limit, now, tz>>
    /\ UNCHANGED <<cvars, avars, svars, nvars, hvars>>

Next ==
    \/ Tick
    \/ \E operation \in Labels, count \in Counts : Consume(operation, count)
    \/ ReadUsed
    \/ ReadRemaining
    \/ StatusBegin
    \/ StatusEnd

\* What a handler call is given (selector: one of channel_id / handle / mine
\* is passed; playlist: playlist_id is passed; file: os.path.exists(
\* file_path)) and what the API answers it (found: a lookup returns items;
\* fail_at: the request, counted from 1, whose execute() raises; 0 for none).
Inputs(selector, playlist, file, found, fail_at) ==
    [selector |-> selector, playlist |-> playlist, file |-> file,
     found |-> found, fail_at |-> fail_at]
NoInputs == Inputs(TRUE, FALSE, TRUE, TRUE, 0)
\* What hstart records: _used and _date when the handler was called.
Start(u, d) == [used |-> u, date |-> d]

\* No handler has been called.
HIdle ==
    /\ handler = "none"
    /\ hinp = NoInputs
    /\ hprog = <<>>
    /\ hlog = <<>>
    /\ hresult = "none"
    /\ hstart = Start(0, 0)
    /\ hcalls = 0

\* One caller at a time uses the tracker.
Init == QInit /\ CIdle /\ AIdle /\ HIdle
Spec == Init /\ [][Next]_vars

(***************************************************************************)
(* consume() run by several callers at once. The code takes no lock, so    *)
(* the callers' steps interleave: the rollover check and the cost (lines   *)
(* 48-49), the test (lines 50-51), and the two halves of                   *)
(* "self._used += cost" (line 52), the load and the store.                 *)
(***************************************************************************)
\* Caller p is between its test and its store.
Committing(p) == cpc[p] \in {"load", "store"}

\* Every other caller that has passed its test is marked: _used has been
\* written since it looked.
MarkOthers(p) ==
    [q \in Threads |-> IF q # p /\ Committing(q) THEN TRUE ELSE cstale[q]]

\* lines 48-49
ConsumeEnter(p, operation, count) ==
    /\ cpc[p] = "idle"
    /\ _used' = ResetUsed(_used, _date, Today)
    /\ _date' = ResetDate(_date, Today)
    /\ ccost' = [ccost EXCEPT ![p] = QuotaCost(QUOTA_COSTS, operation) * count]
    /\ cpc' = [cpc EXCEPT ![p] = "check"]
    /\ cstale' = IF _used' # _used THEN MarkOthers(p) ELSE cstale
    /\ UNCHANGED <<ctmp, raced>>
    /\ UNCHANGED <<QUOTA_COSTS, daily_limit, now, tz, qpc, qview, qcall, avars,
                   svars, nvars, hvars>>

\* lines 50-51
ConsumeCheck(p) ==
    /\ cpc[p] = "check"
    /\ IF Exhausted(_used, ccost[p], daily_limit)
       THEN /\ cpc' = [cpc EXCEPT ![p] = "idle"]
            /\ ccost' = [ccost EXCEPT ![p] = 0]
       ELSE /\ cpc' = [cpc EXCEPT ![p] = "load"]
            /\ ccost' = ccost
    /\ cstale' = [cstale EXCEPT ![p] = FALSE]
    /\ UNCHANGED <<_used, _date, ctmp, raced>>
    /\ UNCHANGED <<QUOTA_COSTS, daily_limit, now, tz, qpc, qview, qcall, avars,
                   svars, nvars, hvars>>

\* line 52, the load of self._used
ConsumeLoad(p) ==
    /\ cpc[p] = "load"
    /\ ctmp' = [ctmp EXCEPT ![p] = _used]
    /\ cpc' = [cpc EXCEPT ![p] = "store"]
    /\ UNCHANGED <<_used, _date, ccost, cstale, raced>>
    /\ UNCHANGED <<QUOTA_COSTS, daily_limit, now, tz, qpc, qview, qcall, avars,
                   svars, nvars, hvars>>

\* line 52, the store to self._used
ConsumeStore(p) ==
    /\ cpc[p] = "store"
    /\ _used' = Debit(ctmp[p], ccost[p])
    /\ raced' = (raced \/ cstale[p])
    /\ cstale' = [MarkOthers(p) EXCEPT ![p] = FALSE]
    /\ cpc' = [cpc EXCEPT ![p] = "idle"]
    /\ ccost' = [ccost EXCEPT ![p] = 0]
    /\ ctmp' = [ctmp EXCEPT ![p] = 0]
    /\ UNCHANGED _date
    /\ UNCHANGED <<QUOTA_COSTS, daily_limit, now, tz, qpc, qview, qcall, avars,
                   svars, nvars, hvars>>

CNext ==
    \/ Tick
    \/ \E p \in Threads, operation \in ConcurrentLabels,
          count \in ConcurrentCounts : ConsumeEnter(p, operation, count)
    \/ \E p \in Threads : ConsumeCheck(p)
    \/ \E p \in Threads : ConsumeLoad(p)
    \/ \E p \in Threads : ConsumeStore(p)

SpecConcurrent == Init /\ [][CNext]_vars

\* build_youtube_service(), build_youtube_analytics_service() and
\* build_youtube_reporting_service(): build(..., credentials=self.credentials)
Services == {"youtube", "youtubeAnalytics", "youtubereporting"}
CallBuildService(service) ==
    \E env \in Environments :
        Leave(service,
              credentials(token_file, _credentials,
                          ClientSecret(client_secret_path,
                                       client_secret_exists),
                          now, issued + 1, env))

\* A call of build_public_youtube_service().
CallBuildPublic ==
    Leave("public",
          build_public_youtube_service(api_key, token_file, _credentials))

\* A call of status().
CallStatus ==
    /\ acall' = ACall("status", now, Pre(token_file, _credentials),
                      StatusOutcome(token_file, _credentials, now),
                      YouTubeAuth_status(token_file, client_secret_exists,
                                         now))
    /\ token_file' = StatusOutcome(token_file, _credentials, now).file
    /\ _credentials' = StatusOutcome(token_file, _credentials, now).cache
    /\ UNCHANGED <<client_secret_path, client_secret_exists, api_key, issued>>
    /\ UNCHANGED <<qvars, cvars, svars, nvars, hvars>>

ANext ==
    \/ Tick
    \/ CallAuthenticate
    \/ \E service \in Services : CallBuildService(service)
    \/ CallBuildPublic
    \/ CallStatus

(***************************************************************************)
(* _save_token and _load_token step by step, for a second caller that      *)
(* loads the token file while authenticate() is saving it.                 *)
(***************************************************************************)
\* The Credentials authenticate() passes to _save_token: that of a refresh
\* (line 89) when the token file holds an expired record with a refresh
\* token, or that of the consent flow (line 110) when a client-secret file
\* exists.
SavedCreds ==
    LET creds == _load_token(token_file)
        usable == creds # None /\ Valid(creds, now)
        refreshable ==
            creds # None /\ Expired(creds, now) /\ creds.refresh_token # 0
    IN  (IF ~usable /\ refreshable
         THEN {Refreshed(creds, now, issued + 1)} ELSE {})
        \cup (IF ~usable /\ client_secret_exists
              THEN {Consented(now, issued + 1)} ELSE {})

\* _save_token up to the open inside write_text: Path.write_text opens the
\* file with mode "w", which creates it or truncates it to no content; an
\* empty file is one that does not parse.
SaveTokenOpen ==
    /\ wpc = "idle"
    /\ issued + 1 <= MaxIssued
    /\ \E creds \in SavedCreds : wcreds' = creds
    /\ wold' = token_file
    /\ token_file' = Garbage
    /\ wpc' = "opened"
    /\ issued' = issued + 1
    /\ UNCHANGED <<client_secret_path, client_secret_exists, api_key,
                   _credentials, acall, sread>>
    /\ UNCHANGED <<qvars, cvars, nvars, hvars>>

\* The rest of write_text: the JSON is written and the file closed; then
\* authenticate() assigns self._credentials (lines 90 and 111).
SaveTokenWrite ==
    /\ wpc = "opened"
    /\ token_file' = to_json(wcreds)
    /\ _credentials' = wcreds
    /\ wpc' = "idle"
    /\ UNCHANGED <<client_secret_path, client_secret_exists, api_key, issued,
                   acall, wcreds, wold, sread>>
    /\ UNCHANGED <<qvars, cvars, nvars, hvars>>

\* _load_token by a second caller (status(), or authenticate() at line 80):
\* it reads the token file as it is at that moment.
LoadTokenRead ==
    /\ sread' = StoreRead(token_file, wpc = "opened", wold, to_json(wcreds))
    /\ UNCHANGED <<token_file, client_secret_path, client_secret_exists,
                   api_key, _credentials, issued, acall, wpc, wcreds, wold>>
    /\ UNCHANGED <<qvars, cvars, nvars, hvars>>

SNext ==
    \/ SaveTokenOpen
    \/ SaveTokenWrite
    \/ LoadTokenRead

\* A tracker on a host in the reference timezone that is not used.
QIdle == QInit /\ daily_limit = 150 /\ tz = 0

InitAuth == QIdle /\ CIdle /\ AInit /\ HIdle
SpecAuth == InitAuth /\ [][ANext]_vars
SpecStore == InitAuth /\ [][SNext]_vars

(***************************************************************************)
(* Construction: YouTubeAuth(...) for every combination of arguments and   *)
(* environment variables, each not given, empty or given.                  *)
(***************************************************************************)
ConstructorArgs ==
    {InitArgs(secret, dir, key) :
        secret \in {Unset, "", "/explicit/secret.json"},
        dir \in {Unset, "", "/tmp/cfg"},
        key \in {Unset, "", "explicit-key"}}
Environs ==
    {Environ(secret, key) :
        secret \in {Unset, "", "/env/path.json"},
        key \in {Unset, "", "env-key"}}

\* Before __init__ has run: the arguments and the environment are there, the
\* attributes are not.
Unconstructed ==
    /\ init_args \in ConstructorArgs
    /\ environ \in Environs
    /\ config_dir = Unset
    /\ token_path = Unset
    /\ client_secret_path = Unset
    /\ api_key = Unset
    /\ token_file = Absent
    /\ client_secret_exists = FALSE
    /\ _credentials = None
    /\ issued = 1
    /\ acall = ACall("none", 0, Pre(Absent, None), NoOutcome, NoDict)
    /\ SIdle

\* YouTubeAuth.__init__ runs.
Construct ==
    /\ config_dir = Unset
    /\ config_dir' = YouTubeAuth_init(init_args, environ).config_dir
    /\ token_path' = YouTubeAuth_init(init_args, environ).token_path
    /\ client_secret_path' =
          YouTubeAuth_init(init_args, environ).client_secret_path
    /\ api_key' = YouTubeAuth_init(init_args, environ).api_key
    /\ _credentials' = None
    /\ UNCHANGED <<init_args, environ, token_file, client_secret_exists,
                   issued, acall>>
    /\ UNCHANGED <<qvars, cvars, svars, hvars>>

NNext == Construct

InitConfig == QIdle /\ CIdle /\ Unconstructed /\ HIdle
SpecConfig == InitConfig /\ [][NNext]_vars

(***************************************************************************)
(* tools/*.py: the tool handlers, each as the sequence of calls it makes   *)
(* on the shared QuotaTracker (quota.consume), on the shared YouTubeAuth   *)
(* (its service builders) and on the API client (execute).                 *)
(***************************************************************************)
\* The calls a handler makes are recorded in hlog; qcall and acall, which
\* record the calls made on the tracker and on YouTubeAuth from outside the
\* handlers, are left as they are.
\* One step of a handler: quota.consume(label), auth's service builder, a
\* request's execute(), or a return.
Step(kind, arg) == [kind |-> kind, arg |-> arg]
QuotaStep(label) == <<Step("consume", label)>>
ClientStep(service) == <<Step("client", service)>>
RequestStep(method) == <<Step("request", method)>>
ReturnStep(result) == <<Step("return", result)>>
\* What hlog records of a step taken: the step and how it ended.
Event(kind, arg, outcome) == [kind |-> kind, arg |-> arg, outcome |-> outcome]

\* The handlers that start with quota.consume(label), build the Data API
\* client and send one request.
SimpleHandlers ==
    [youtube_get_video |-> <<"list", "videos.list">>,
     youtube_search |-> <<"search", "search.list">>,
     youtube_trending |-> <<"list", "videos.list">>,
     youtube_get_categories |-> <<"list", "videoCategories.list">>,
     youtube_list_captions |-> <<"list", "captions.list">>,
     youtube_delete_video |-> <<"delete", "videos.delete">>,
     youtube_create_playlist |-> <<"insert", "playlists.insert">>,
     youtube_add_to_playlist |-> <<"insert", "playlistItems.insert">>,
     youtube_remove_from_playlist |-> <<"delete", "playlistItems.delete">>,
     youtube_list_comments |-> <<"list", "commentThreads.list">>,
     youtube_post_comment |-> <<"insert", "commentThreads.insert">>,
     youtube_reply_to_comment |-> <<"insert", "comments.insert">>]

Handlers ==
    DOMAIN SimpleHandlers \cup
    {"youtube_get_channel", "youtube_list_videos", "_get_transcript_official",
     "_run_analytics_query", "youtube_reporting_list_jobs",
     "youtube_upload_video", "youtube_update_video", "youtube_set_thumbnail",
     "youtube_list_playlists"}

\* youtube_list_videos from line 101 on: the playlist items, then the videos.
ListVideosTail(i) ==
    QuotaStep("list") \o RequestStep("playlistItems.list")
    \o (IF i.found
        THEN QuotaStep("list") \o RequestStep("videos.list")
             \o ReturnStep("ok")
        ELSE ReturnStep("ok"))

\* Mutant: a handler of one request reserves its quota again after it has
\* built the client.
SimpleProgramReservesTwice(h, i) ==
    QuotaStep(SimpleHandlers[h][1]) \o ClientStep("youtube")
    \o QuotaStep(SimpleHandlers[h][1])
    \o RequestStep(SimpleHandlers[h][2])
    \o ReturnStep(IF h = "youtube_get_video" /\ ~i.found
                  THEN "error" ELSE "ok")
\* A handler of SimpleHandlers: reserve, build the client, send the request,
\* return the response (youtube_get_video: an error dict if it has no item).
SimpleProgram(h, i) ==
    QuotaStep(SimpleHandlers[h][1]) \o ClientStep("youtube")
    \o RequestStep(SimpleHandlers[h][2])
    \o ReturnStep(IF h = "youtube_get_video" /\ ~i.found
                  THEN "error" ELSE "ok")

\* Mutant: the file is tested after the quota is reserved and the client
\* is built.
FileProgramChecksFileLate(label, method, i) ==
    QuotaStep(label) \o ClientStep("youtube")
    \o (IF ~i.file THEN ReturnStep("error")
        ELSE RequestStep(method) \o ReturnStep("ok"))
\* youtube_upload_video and youtube_set_thumbnail: os.path.exists(file_path)
\* is tested first.
FileProgram(label, method, i) ==
    IF ~i.file THEN ReturnStep("error")
    ELSE QuotaStep(label) \o ClientStep("youtube")
         \o RequestStep(method) \o ReturnStep("ok")

\* Mutant: youtube_update_video sends the update without reserving for it.
UpdateProgramWithoutReservation(i) ==
    QuotaStep("list") \o ClientStep("youtube")
    \o RequestStep("videos.list")
    \o (IF i.found
        THEN RequestStep("videos.update") \o ReturnStep("ok")
        ELSE ReturnStep("error"))
\* youtube_update_video: fetch the video, then update it.
UpdateProgram(i) ==
    QuotaStep("list") \o ClientStep("youtube")
    \o RequestStep("videos.list")
    \o (IF i.found
        THEN QuotaStep("update") \o RequestStep("videos.update")
             \o ReturnStep("ok")
        ELSE ReturnStep("error"))

\* The steps handler h takes when given i, in the order of its source.
\* i.found tells whether the first lookup of the call finds what it looks
\* for; the later lookups of the same call do.
Program(h, i) ==
    IF h \in DOMAIN SimpleHandlers THEN SimpleProgram(h, i)
    ELSE IF h = "youtube_get_channel"
    THEN QuotaStep("list") \o ClientStep("youtube")
         \o (IF i.selector
             THEN RequestStep("channels.list")
                  \o ReturnStep(IF i.found THEN "ok" ELSE "error")
             ELSE ReturnStep("error"))
    ELSE IF h = "youtube_list_playlists"
    THEN QuotaStep("list") \o ClientStep("youtube")
         \o (IF i.selector
             THEN RequestStep("playlists.list") \o ReturnStep("ok")
             ELSE ReturnStep("error"))
    ELSE IF h = "youtube_list_videos"
    THEN ClientStep("youtube")
         \o (IF i.playlist THEN ListVideosTail(i)
             ELSE QuotaStep("list")
                  \o (IF ~i.selector THEN ReturnStep("error")
                      ELSE RequestStep("channels.list")
                           \o (IF i.found THEN ListVideosTail(i)
                               ELSE ReturnStep("error"))))
    ELSE IF h = "_get_transcript_official"
    THEN QuotaStep("list") \o ClientStep("youtube")
         \o RequestStep("captions.list")
         \o (IF i.found
             THEN QuotaStep("list") \o RequestStep("captions.download")
                  \o ReturnStep("ok")
             ELSE ReturnStep("error"))
    ELSE IF h = "_run_analytics_query"
    THEN ClientStep("youtubeAnalytics") \o RequestStep("reports.query")
         \o ReturnStep("ok")
    ELSE IF h = "youtube_reporting_list_jobs"
    THEN ClientStep("youtubereporting") \o RequestStep("jobs.list")
         \o ReturnStep("ok")
    ELSE IF h = "youtube_upload_video"
    THEN FileProgram("video_insert", "videos.insert", i)
    ELSE IF h = "youtube_set_thumbnail"
    THEN FileProgram("thumbnail_set", "thumbnails.set", i)
    ELSE IF h = "youtube_update_video" THEN UpdateProgram(i)
    ELSE ReturnStep("ok")

\* The inputs that make a difference to handler h; the others are left at
\* the values of NoInputs. fail_at = n makes the n-th request of the call
\* raise HttpError, 0 none.
HandlerInputs(h) ==
    {Inputs(sel, pl, file, found, fail) :
        sel \in IF h \in {"youtube_get_channel", "youtube_list_videos",
                          "youtube_list_playlists"}
                THEN BOOLEAN ELSE {TRUE},
        pl \in IF h = "youtube_list_videos" THEN BOOLEAN ELSE {FALSE},
        file \in IF h \in {"youtube_upload_video", "youtube_set_thumbnail"}
                 THEN BOOLEAN ELSE {TRUE},
        found \in IF h \in {"youtube_get_channel", "youtube_list_videos",
                            "_get_transcript_official", "youtube_update_video",
                            "youtube_get_video"}
                  THEN BOOLEAN ELSE {TRUE},
        fail \in IF h \in {"youtube_list_videos", "youtube_update_video",
                           "_get_transcript_official"}
                 THEN {0, 1, 2} ELSE {0, 1}}

\* The requests the handler has sent in this call.
Sent(log) == {n \in 1 .. Len(log) : log[n].kind = "request"}

\* Mutant: a handler that fails after a reservation gives back what its
\* first reservation cost.
UnwindRefunds(u, log) ==
    LET done == SelectSeq(log, LAMBDA e : e.kind = "consume" /\ e.outcome = "ok")
    IN  IF done = <<>> THEN u
        ELSE u - QuotaCost(QuotaCostTable, done[1].arg)
\* What a handler's failure does to the tracker: no handler catches an
\* exception of a service builder or of execute to give quota back, so _used is left
\* as consume left it.
Unwind(u, log) == u

\* A tool handler is called.
HandlerCall(h, i) ==
    /\ hresult # "running"
    /\ hcalls < MaxCalls
    /\ handler' = h
    /\ hinp' = i
    /\ hprog' = Program(h, i)
    /\ hlog' = <<>>
    /\ hresult' = "running"
    /\ hstart' = Start(_used, _date)
    /\ hcalls' = hcalls + 1
    /\ UNCHANGED <<qvars, cvars, avars, svars, nvars>>

\* The handler reaches a quota.consume(label): consume runs as in
\* QuotaTracker, and a QuotaExhaustedError ends the handler.
HandlerConsume ==
    /\ hresult = "running" /\ hprog # <<>> /\ Head(hprog).kind = "consume"
    /\ qpc = "idle"
    /\ LET label == Head(hprog).arg
           u0    == ResetUsed(_used, _date, Today)
           d0    == ResetDate(_date, Today)
           cost  == QuotaCost(QUOTA_COSTS, label) * 1
       IN  /\ _date' = d0
           /\ IF Exhausted(u0, cost, daily_limit)
              THEN /\ _used' = u0
                   /\ hlog' = Append(hlog, Event("consume", label,
                                                 "QuotaExhaustedError"))
                   /\ hresult' = "QuotaExhaustedError"
                   /\ hprog' = <<>>
              ELSE /\ _used' = Debit(u0, cost)
                   /\ hlog' = Append(hlog, Event("consume", label, "ok"))
                   /\ hresult' = "running"
                   /\ hprog' = Tail(hprog)
    /\ UNCHANGED <<QUOTA_COSTS, daily_limit, now, tz, qpc, qview, qcall>>
    /\ UNCHANGED <<handler, hinp, hstart, hcalls>>
    /\ UNCHANGED <<cvars, avars, svars, nvars>>

\* The handler reaches an auth's service builder: the credentials property
\* runs as in YouTubeAuth, and an AuthError ends the handler.
HandlerClient ==
    /\ hresult = "running" /\ hprog # <<>> /\ Head(hprog).kind = "client"
    /\ \E env \in Environments :
        LET r == credentials(token_file, _credentials,
                             ClientSecret(client_secret_path,
                                          client_secret_exists),
                             now, issued + 1, env)
        IN  /\ Minted(r) <= MaxIssued
            /\ token_file' = r.file
            /\ _credentials' = r.cache
            /\ issued' = IF Minted(r) > issued THEN Minted(r) ELSE issued
            /\ hlog' = Append(hlog, Event("client", Head(hprog).arg, r.result))
            /\ hresult' = IF r.result = "returned" THEN "running" ELSE r.result
            /\ hprog' = IF r.result = "returned" THEN Tail(hprog) ELSE <<>>
            /\ _used' = IF r.result = "returned" THEN _used
                        ELSE Unwind(_used, hlog)
    /\ UNCHANGED <<QUOTA_COSTS, daily_limit, _date, now, tz, qpc, qview, qcall>>
    /\ UNCHANGED <<client_secret_path, client_secret_exists, api_key, acall>>
    /\ UNCHANGED <<handler, hinp, hstart, hcalls>>
    /\ UNCHANGED <<cvars, svars, nvars>>

\* The handler reaches a request's execute(): the request is sent, and an
\* HttpError of the API ends the handler.
HandlerRequest ==
    /\ hresult = "running" /\ hprog # <<>> /\ Head(hprog).kind = "request"
    /\ LET failed == hinp.fail_at = Cardinality(Sent(hlog)) + 1
       IN  /\ hlog' = Append(hlog, Event("request", Head(hprog).arg,
                                         IF failed THEN "HttpError" ELSE "ok"))
           /\ hresult' = IF failed THEN "HttpError" ELSE "running"
           /\ hprog' = IF failed THEN <<>> ELSE Tail(hprog)
           /\ _used' = IF failed THEN Unwind(_used, hlog) ELSE _used
    /\ UNCHANGED <<QUOTA_COSTS, daily_limit, _date, now, tz, qpc, qview, qcall>>
    /\ UNCHANGED <<handler, hinp, hstart, hcalls>>
    /\ UNCHANGED <<cvars, avars, svars, nvars>>

\* The handler returns its result dict: "ok", or "error" for a dict that
\* holds an "error" entry.
HandlerReturn ==
    /\ hresult = "running" /\ hprog # <<>> /\ Head(hprog).kind = "return"
    /\ hresult' = Head(hprog).arg
    /\ hprog' = <<>>
    /\ _used' = IF Head(hprog).arg = "error" THEN Unwind(_used, hlog)
                ELSE _used
    /\ UNCHANGED <<QUOTA_COSTS, daily_limit, _date, now, tz, qpc, qview, qcall>>
    /\ UNCHANGED <<handler, hinp, hlog, hstart, hcalls>>
    /\ UNCHANGED <<cvars, avars, svars, nvars>>

TNext ==
    \/ Tick
    \/ \E h \in Handlers : \E i \in HandlerInputs(h) : HandlerCall(h, i)
    \/ HandlerConsume
    \/ HandlerClient
    \/ HandlerRequest
    \/ HandlerReturn

\* What the server's tracker (QuotaTracker(), limit 10,000) can have used
\* when a handler is called: nothing; 9,950 (six uploads, three searches and
\* an insert); all of it (six uploads and four searches).
UsedAtCall == {0, 9950, 10000}

\* The token files the server's YouTubeAuth is explored with: none, one with
\* an unexpired token, one expired with a refresh token.
ServerTokenFiles ==
    {Absent, to_json(Creds(1, 1, SCOPES, {TokenLife})),
     to_json(Creds(1, 1, SCOPES, {0}))}

\* server.py: the shared auth and quota objects.
InitTools ==
    /\ QUOTA_COSTS = QuotaCostTable
    /\ daily_limit = 10000
    /\ _used \in UsedAtCall
    /\ now = 0
    /\ tz = 0
    /\ _date = LocalDate(0, tz)
    /\ qpc = "idle"
    /\ qview = 0
    /\ qcall = Call("none", "-", 0, "none", 0, NoError, NoStatus, 0, FALSE)
    /\ CIdle
    /\ token_file \in ServerTokenFiles
    /\ Constructed(InitArgs(Unset, Unset, Unset), Environ(Unset, Unset))
    /\ client_secret_exists \in BOOLEAN
    /\ _credentials = None
    /\ issued = 1
    /\ acall = ACall("none", 0, Pre(Absent, None), NoOutcome, NoDict)
    /\ SIdle
    /\ HIdle

SpecTools == InitTools /\ [][TNext]_vars

(***************************************************************************)
(* What the claims are stated against: the unit cost the table gives a     *)
(* label, and what a read of used would have returned when the recorded    *)
(* call began.                                                             *)
(***************************************************************************)
TableCost(label) == IF label \in TableLabels THEN QuotaCostTable[label] ELSE 1
CallCost == TableCost(qcall.label) * qcall.count
UsedBefore == IF qcall.stale THEN 0 ELSE qcall.raw
Consumed == qcall.op = "consume" /\ qcall.result = "ok"
Rejected == qcall.op = "consume" /\ qcall.result = "QuotaExhaustedError"

\* C1: every consume that returns normally leaves used <= daily_limit, and a
\* rejected consume leaves the counter at what a read of used gave before it.
C1_UsedWithinLimit ==
    /\ Consumed => _used <= daily_limit
    /\ Rejected => _used = UsedBefore
    /\ (qcall.op = "consume" /\ UsedBefore + CallCost > daily_limit) => Rejected

\* C1 witness: a consume has returned normally with used exactly at the limit.
C1_Witness == Consumed /\ qcall.count > 0 /\ _used = daily_limit

\* C2: whenever used + cost > daily_limit after the rollover check, consume
\* raises QuotaExhaustedError carrying the tracker's used and daily_limit, and
\* used after the failed call equals used before it.
C2_RejectionCarriesState ==
    (qcall.op = "consume" /\ UsedBefore + CallCost > daily_limit) =>
        /\ qcall.result = "QuotaExhaustedError"
        /\ qcall.err.used = UsedBefore
        /\ qcall.err.limit = daily_limit
        /\ _used = UsedBefore

\* C2 witness: the scenario of the tests: limit 150, search consumed, a second
\* search rejected with used = 100.
C2_Witness ==
    /\ Rejected /\ qcall.label = "search" /\ qcall.count = 1
    /\ daily_limit = 150 /\ qcall.err.used = 100 /\ _used = 100

\* C3: for every label with cost C and every N >= 0 with used + N*C <=
\* daily_limit (the boundary and N = 0 included) consume returns normally and
\* increases used by exactly N*C.
C3_ConsumeDebitsExactly ==
    (qcall.op = "consume" /\ qcall.count >= 0
        /\ UsedBefore + CallCost <= daily_limit) =>
        /\ qcall.result = "ok"
        /\ _used = UsedBefore + CallCost

\* C3 witness: list, search, list x3 has left used = 104.
C3_Witness ==
    /\ Consumed /\ qcall.label = "list" /\ qcall.count = 3
    /\ ~qcall.stale /\ qcall.raw = 101 /\ _used = 104

\* C4: once the calendar date differs from the stored reset date, the next
\* read of used gives 0, of remaining gives daily_limit, and the next consume
\* of cost c is checked against 0 + c: it succeeds with used = c, or is
\* rejected with an error carrying used = 0.
C4_RolloverBeforeRequest ==
    qcall.stale =>
        /\ qcall.op = "used" => qcall.value = 0
        /\ qcall.op = "remaining" => qcall.value = daily_limit
        /\ qcall.op = "consume" =>
              IF CallCost <= daily_limit
              THEN qcall.result = "ok" /\ _used = CallCost
              ELSE /\ qcall.result = "QuotaExhaustedError"
                   /\ qcall.err.used = 0 /\ _used = 0

\* C4 witness: a consume on a new day succeeded although the previous day's
\* usage plus its cost exceeds the limit.
C4_Witness ==
    /\ Consumed /\ qcall.stale /\ qcall.raw > 0
    /\ qcall.raw + CallCost > daily_limit /\ _used = CallCost

\* C5: with the test and the increment of concurrent consume calls
\* interleaving, used can end above daily_limit, and it does so only after a
\* caller has stored on a test that another caller's write had made stale;
\* calls that each run to completion before the next begins never get there.
C5_OvershootOnlyByRace == _used > daily_limit => raced

\* C5 witness: two concurrent calls have both passed the test and have
\* together left used above daily_limit.
C5_Witness == _used > daily_limit /\ \A p \in Threads : cpc[p] = "idle"

\* C6 (as claimed): within one quota day used is never negative and never
\* decreases, for every label and every integer count.
C6_UsedMonotoneWithinDay ==
    (qcall.op \in {"consume", "used", "remaining"} /\ ~qcall.stale) =>
        /\ _used >= qcall.raw
        /\ _used >= 0

\* C7 (as claimed): every result of status() is a snapshot of one quota day:
\* remaining = limit - used, limit = daily_limit, and used and date are those
\* of the day the tracker is on when status() returns, wherever the date
\* changes during the call. Stated for a tracker whose used is not negative.
C7_StatusIsSnapshot ==
    (qcall.op = "status" /\ qcall.result = "ok" /\ qcall.status.used >= 0) =>
        /\ qcall.status.remaining = qcall.status.limit - qcall.status.used
        /\ qcall.status.limit = daily_limit
        /\ qcall.status.used = _used
        /\ qcall.status.date = DateStr(_date)

\* C8: the cost table is fixed at its nine entries, no tracker operation
\* changes it, and consume with a label outside the table charges exactly 1
\* unit per count.
C8_CostTableFixed ==
    /\ DOMAIN QUOTA_COSTS = TableLabels
    /\ QUOTA_COSTS["list"] = 1
    /\ \A l \in {"insert", "update", "delete", "thumbnail_set"} :
          QUOTA_COSTS[l] = 50
    /\ QUOTA_COSTS["search"] = 100
    /\ QUOTA_COSTS["caption_insert"] = 400
    /\ QUOTA_COSTS["caption_update"] = 450
    /\ QUOTA_COSTS["video_insert"] = 1600
    /\ (qcall.op = "consume" /\ qcall.label \notin TableLabels) =>
          IF UsedBefore + qcall.count <= daily_limit
          THEN qcall.result = "ok" /\ _used = UsedBefore + qcall.count
          ELSE qcall.result = "QuotaExhaustedError" /\ _used = UsedBefore

\* C8 witness: an unknown label consumed three times has charged 3 units.
C8_Witness ==
    /\ Consumed /\ qcall.label = UnknownLabel /\ qcall.count = 3
    /\ _used = UsedBefore + 3

\* C10: every call of authenticate() ends in one of two ways: it returns a
\* Credentials that is valid (it has an access token and is unexpired) at
\* that instant, or it raises AuthError; no other kind of error escapes.
C10_ValidOrAuthError ==
    acall.op = "authenticate" =>
        \/ /\ acall.r.result = "returned"
           /\ acall.r.cred.token # 0
           /\ \A e \in acall.r.cred.expiry : acall.at < e
        \/ /\ acall.r.result = "AuthError"
           /\ acall.r.cred = None

\* C10 witness: a refresh has failed and the consent flow after it too, and
\* authenticate() has raised AuthError.
C10_Witness ==
    /\ acall.op = "authenticate" /\ acall.r.result = "AuthError"
    /\ acall.r.refresh = "RefreshError" /\ acall.r.consent = "FlowError"

\* The calendar date of instant t in the reference timezone (Pacific Time).
ReferenceDate(t) == t \div TicksPerDay

\* C9 (as claimed): the counter resets exactly when the Pacific-Time date
\* changes, whatever the host's timezone: every tracker operation leaves the
\* stored reset date at the current Pacific-Time date.
C9_ResetsAtReferenceMidnight ==
    [][now' = now => _date' = ReferenceDate(now')]_vars

(***************************************************************************)
(* What the claims about YouTubeAuth are stated against: the record the    *)
(* recorded call found in the token file.                                  *)
(***************************************************************************)
\* The token file held a parseable record when the recorded call began.
StoredRecord == acall.pre.file.kind = "json"
\* That record held an access token that was unexpired at the call.
StoredUnexpired ==
    /\ StoredRecord
    /\ acall.pre.file.token # 0
    /\ \A e \in acall.pre.file.expiry : acall.at < e
\* That record had expired at the call and held a refresh token.
StoredRefreshable ==
    /\ StoredRecord
    /\ \E e \in acall.pre.file.expiry : acall.at >= e
    /\ acall.pre.file.refresh_token # 0
\* Credentials c carries the grant recorded in token file f.
SameGrant(c, f) ==
    /\ f.kind = "json"
    /\ c.token = f.token
    /\ c.refresh_token = f.refresh_token
    /\ c.expiry = f.expiry
\* The recorded call left the token file and self._credentials as it found
\* them.
StoreAndCacheKept ==
    /\ acall.r.file = acall.pre.file
    /\ token_file = acall.pre.file
    /\ acall.r.cache = acall.pre.cache
    /\ _credentials = acall.pre.cache

\* C11: when the token file holds a record with an unexpired access token,
\* authenticate() returns that Credentials at once: it makes no refresh call,
\* starts no consent flow, does not write the token file, and does not look
\* for the client-secret file (it succeeds where that file is missing).
C11_ValidTokenReturnedAtOnce ==
    (acall.op = "authenticate" /\ StoredUnexpired) =>
        /\ acall.r.result = "returned"
        /\ SameGrant(acall.r.cred, acall.pre.file)
        /\ acall.r.refresh = "none"
        /\ acall.r.consent = "none"
        /\ ~acall.r.wrote
        /\ token_file = acall.pre.file

\* C11 witness: authenticate() has returned the stored Credentials on a host
\* with no client-secret file.
C11_Witness ==
    /\ acall.op = "authenticate" /\ StoredUnexpired
    /\ ~client_secret_exists
    /\ acall.r.result = "returned"
    /\ SameGrant(acall.r.cred, token_file)

\* C12 (as claimed): a persisted Credentials is treated as valid (returned by
\* authenticate() without refresh or consent, reported authenticated by
\* status()) only if it is unexpired and the scopes it was granted, as the
\* token file records them, include all of SCOPES.
C12_ValidOnlyWithFullScopes ==
    /\ (/\ acall.op = "authenticate" /\ acall.r.result = "returned"
        /\ acall.r.refresh = "none" /\ acall.r.consent = "none") =>
            StoredUnexpired /\ SCOPES \subseteq acall.pre.file.scopes
    /\ (acall.op = "status" /\ acall.dict.authenticated) =>
            StoredUnexpired /\ SCOPES \subseteq acall.pre.file.scopes

\* C13 (as claimed): when the token file holds an expired record with a
\* refresh token, authenticate() attempts a refresh first, and if the refresh
\* call succeeds the refreshed Credentials is written to the token file
\* before authenticate() returns, is what authenticate() returns and caches,
\* and the consent flow is never started.
C13_RefreshedIsSavedAndReturned ==
    (acall.op = "authenticate" /\ StoredRefreshable) =>
        /\ acall.r.refresh # "none"
        /\ acall.r.refresh = "ok" =>
              /\ acall.r.consent = "none"
              /\ acall.r.result = "returned"
              /\ acall.r.cred.refresh_token = acall.pre.file.refresh_token
              /\ acall.r.wrote
              /\ SameGrant(acall.r.cred, token_file)
              /\ _credentials = acall.r.cred

\* C14: an exception of the refresh call is never what authenticate()
\* raises. After a failed refresh authenticate() goes on to the client-secret
\* test and the consent flow, and ends in one of three ways: it returns the
\* Credentials the consent flow obtained, it raises AuthError for the
\* missing client-secret file, or it raises AuthError for the failed consent
\* flow.
C14_RefreshFailureFallsThrough ==
    (acall.op = "authenticate" /\ acall.r.refresh = "RefreshError") =>
        /\ acall.r.result # "RefreshError"
        /\ acall.r.cause # "RefreshError"
        /\ IF ~client_secret_exists
           THEN /\ acall.r.result = "AuthError"
                /\ acall.r.msg.text = "client_secret.json not found at"
                /\ acall.r.consent = "none"
           ELSE \/ /\ acall.r.result = "returned"
                   /\ acall.r.consent = "ok"
                   /\ acall.r.cred.token \notin {0, acall.pre.file.token}
                   /\ acall.r.cred.scopes = SCOPES
                \/ /\ acall.r.result = "AuthError"
                   /\ acall.r.msg.text = "OAuth flow failed"
                   /\ acall.r.cause \in {"FlowError", "OSError"}

\* C14 witness: the refresh call has failed and authenticate() has returned
\* the Credentials of the consent flow that followed.
C14_Witness ==
    /\ acall.op = "authenticate" /\ StoredRefreshable
    /\ acall.r.refresh = "RefreshError" /\ acall.r.consent = "ok"
    /\ acall.r.result = "returned"

\* C15: when the token file gives no unexpired Credentials, no refresh has
\* succeeded and no file exists at client_secret_path, authenticate() raises
\* an AuthError whose message names client_secret_path, starts no consent
\* flow, and leaves the token file and self._credentials as they were.
C15_MissingClientSecretRaises ==
    (/\ acall.op = "authenticate" /\ ~StoredUnexpired
     /\ acall.r.refresh # "ok" /\ ~client_secret_exists) =>
        /\ acall.r.result = "AuthError"
        /\ acall.r.msg = Msg("client_secret.json not found at",
                             client_secret_path)
        /\ acall.r.consent = "none"
        /\ StoreAndCacheKept

\* C15 witness: authenticate() has raised the AuthError naming the path on
\* an object that had cached a Credentials, since expired, and the cache and
\* the token file are as they were.
C15_Witness ==
    /\ acall.op = "authenticate" /\ acall.r.result = "AuthError"
    /\ acall.r.msg.arg = client_secret_path
    /\ acall.pre.cache # None /\ _credentials = acall.pre.cache
    /\ StoredRecord /\ token_file = acall.pre.file

\* C16: when the consent flow fails, authenticate() raises an AuthError whose
\* cause and message carry the flow's exception, and the token file and
\* self._credentials are as they were; and whenever a call leaves
\* self._credentials changed, it has returned that Credentials and the token
\* file holds its grant.
C16_ConsentFailureKeepsState ==
    /\ (acall.op = "authenticate" /\ acall.r.consent \notin {"none", "ok"}) =>
           /\ acall.r.result = "AuthError"
           /\ acall.r.cause = acall.r.consent
           /\ acall.r.msg = Msg("OAuth flow failed", acall.r.consent)
           /\ StoreAndCacheKept
    /\ acall.r.cache # acall.pre.cache =>
           /\ acall.r.result = "returned"
           /\ _credentials = acall.r.cred
           /\ SameGrant(_credentials, token_file)

\* C16 witness: the consent flow has failed on an object that had cached a
\* Credentials, since expired; the cache and the token file are as they were.
C16_Witness ==
    /\ acall.op = "authenticate" /\ acall.r.consent = "FlowError"
    /\ acall.r.result = "AuthError" /\ acall.r.cause = "FlowError"
    /\ acall.pre.cache # None /\ _credentials = acall.pre.cache
    /\ StoredRecord /\ token_file = acall.pre.file

C18_NoPartialRead ==
    sread.during => sread.seen \in {sread.old, sread.new}

\* The Credentials the recorded call found cached was valid at the call.
CachedUnexpired ==
    /\ acall.pre.cache.token # 0
    /\ \A e \in acall.pre.cache.expiry : acall.at < e

\* C19: build_youtube_service, build_youtube_analytics_service and
\* build_youtube_reporting_service (through the credentials property) build
\* a client only on a Credentials that has an access token and is unexpired
\* at the call. A cached Credentials that is still valid is used as it is,
\* with no refresh, consent or write; otherwise the caller gets what
\* authenticate() gives: the stored Credentials if that is unexpired, a
\* refreshed or newly consented one, which is then the cached one, or one of
\* authenticate()'s AuthErrors.
C19_AccessorHandsOutValid ==
    acall.op \in Services =>
        /\ acall.r.result \in {"returned", "AuthError"}
        /\ acall.r.result = "returned" =>
              /\ acall.r.cred.token # 0
              /\ \A e \in acall.r.cred.expiry : acall.at < e
              /\ _credentials = acall.r.cred
        /\ IF CachedUnexpired
           THEN /\ acall.r.result = "returned"
                /\ acall.r.cred = acall.pre.cache
                /\ acall.r.refresh = "none" /\ acall.r.consent = "none"
                /\ StoreAndCacheKept
           ELSE /\ StoredUnexpired =>
                     /\ acall.r.result = "returned"
                     /\ SameGrant(acall.r.cred, acall.pre.file)
                /\ (acall.r.result = "returned" /\ ~StoredUnexpired) =>
                     /\ acall.r.refresh = "ok" \/ acall.r.consent = "ok"
                     /\ SameGrant(acall.r.cred, token_file)
                /\ acall.r.result = "AuthError" =>
                     acall.r.msg.text \in {"client_secret.json not found at",
                                           "OAuth flow failed"}

\* C19 witness: a build_* call has found the cached Credentials expired and
\* has built its client on another one, obtained by authenticate().
C19_Witness ==
    /\ acall.op \in Services
    /\ acall.pre.cache # None /\ ~CachedUnexpired
    /\ acall.r.result = "returned" /\ acall.r.cred # acall.pre.cache
    /\ \A e \in acall.r.cred.expiry : acall.at < e

\* C20: build_public_youtube_service() raises AuthError when no API key is
\* configured and otherwise returns a client built on the key alone; either
\* way it makes no refresh call, starts no consent flow, and leaves the
\* token file and self._credentials as they were.
C20_PublicServiceNeedsOnlyKey ==
    acall.op = "public" =>
        /\ IF api_key \notin {Unset, ""}
           THEN acall.r.result = "returned" /\ acall.r.msg = NoMsg
           ELSE /\ acall.r.result = "AuthError"
                /\ acall.r.msg.text = "No API key available"
        /\ acall.r.cred = None
        /\ acall.r.refresh = "none" /\ acall.r.consent = "none"
        /\ ~acall.r.wrote /\ ~acall.r.minted
        /\ StoreAndCacheKept

\* C20 witness: with no API key configured, build_public_youtube_service()
\* has raised AuthError on an object whose token file holds an expired,
\* refreshable record and which has no Credentials cached; both are as they
\* were.
C20_Witness ==
    /\ acall.op = "public" /\ api_key = Unset
    /\ acall.r.result = "AuthError"
    /\ StoredRefreshable /\ token_file = acall.pre.file
    /\ _credentials = None

\* C21: status() is read-only whatever the token file holds: a step that is
\* a status() call makes no refresh call, starts no consent flow and leaves
\* the token file, self._credentials, the configuration and the tokens
\* issued as they were, so the calls after it find the state they would
\* have found without it.
C21_StatusReadOnly ==
    [][(acall'.op = "status" /\ acall' # acall) =>
          /\ acall'.r.refresh = "none" /\ acall'.r.consent = "none"
          /\ ~acall'.r.wrote /\ ~acall'.r.minted
          /\ token_file' = token_file
          /\ _credentials' = _credentials
          /\ issued' = issued
          /\ UNCHANGED <<client_secret_path, client_secret_exists, api_key>>
      ]_vars

\* C21 witness: status() has reported an expired token with a refresh token
\* on an object that holds a cached Credentials; the token file and the
\* cache are as they were.
C21_Witness ==
    /\ acall.op = "status" /\ acall.dict.expired
    /\ acall.dict.has_refresh_token
    /\ _credentials # None /\ _credentials = acall.pre.cache
    /\ token_file = acall.pre.file

\* C22 (as claimed): status() reports what the token file holds: with no
\* file, authenticated false and token_exists false; authenticated true
\* exactly when the file holds a record with an unexpired access token, and
\* then together with the scopes of that token; for an expired record,
\* expired true and has_refresh_token equal to whether the record holds a
\* refresh token.
C22_StatusFaithful ==
    acall.op = "status" =>
        /\ acall.pre.file.kind = "absent" =>
              /\ ~acall.dict.authenticated
              /\ "token_exists" \in acall.dict.keys
              /\ ~acall.dict.token_exists
        /\ acall.dict.authenticated <=> StoredUnexpired
        /\ acall.dict.authenticated =>
              acall.dict.scopes = acall.pre.file.scopes
        /\ (StoredRecord /\ \E e \in acall.pre.file.expiry : acall.at >= e) =>
              /\ acall.dict.expired
              /\ acall.dict.has_refresh_token
                   = (acall.pre.file.refresh_token # 0)

\* An argument or environment variable carries a value: it is neither None
\* (not passed, not set) nor the empty string.
Given(x) == x \notin {Unset, ""}

C24_ConfigPrecedence ==
    config_dir # Unset =>
        /\ config_dir = IF Given(init_args.config_dir)
                        THEN init_args.config_dir ELSE "~/.youtube-mcp"
        /\ token_path = config_dir \o "/token.json"
        /\ client_secret_path =
              IF Given(init_args.client_secret_path)
              THEN init_args.client_secret_path
              ELSE IF Given(environ.YOUTUBE_MCP_CLIENT_SECRET)
              THEN environ.YOUTUBE_MCP_CLIENT_SECRET
              ELSE config_dir \o "/client_secret.json"
        /\ api_key = IF Given(init_args.api_key) THEN init_args.api_key
                     ELSE environ.YOUTUBE_API_KEY

\* C24 witness: both arguments and both environment variables were given,
\* and the object holds the arguments.
C24_Witness ==
    /\ config_dir = "/tmp/cfg" /\ token_path = "/tmp/cfg/token.json"
    /\ environ = Environ("/env/path.json", "env-key")
    /\ client_secret_path = "/explicit/secret.json"
    /\ api_key = "explicit-key"


(***************************************************************************)
(* What the claims about the tool handlers are stated against: the calls   *)
(* the running (or last) handler has made, in order, in hlog.              *)
(***************************************************************************)
\* The n-th call of the handler came after a reservation that succeeded.
Reserved(log, n) ==
    \E m \in 1 .. (n - 1) : log[m].kind = "consume" /\ log[m].outcome = "ok"
\* The n-th call of the handler came after a reservation that was rejected.
AfterRejection(log, n) ==
    \E m \in 1 .. (n - 1) :
        log[m].kind = "consume" /\ log[m].outcome = "QuotaExhaustedError"
\* The handler obtained a client in this call.
ObtainedClient(log) == \E n \in 1 .. Len(log) : log[n].kind = "client"
\* The labels the handler reserved with success in this call, in order.
ReservedLabels(log) ==
    SelectSeq(log, LAMBDA e : e.kind = "consume" /\ e.outcome = "ok")
\* All the calls of quota.consume the handler made in this call, in order.
ConsumeCalls(log) == SelectSeq(log, LAMBDA e : e.kind = "consume")

\* C25: in every handler that sends a request, quota is reserved, then the
\* client is obtained, then the request is sent: no client is obtained and
\* no request is sent before a reservation succeeded, and after a
\* QuotaExhaustedError neither happens.
C25_ReserveThenClientThenRequest ==
    \A n \in 1 .. Len(hlog) :
        /\ hlog[n].kind \in {"client", "request"}
            => Reserved(hlog, n) /\ ~AfterRejection(hlog, n)
        /\ hlog[n].kind = "request"
            => \E m \in 1 .. (n - 1) :
                  hlog[m].kind = "client" /\ hlog[m].outcome = "returned"


\* C26: youtube_upload_video and youtube_set_thumbnail called with a file
\* path that does not exist return an error result without calling consume
\* and without obtaining a client; used is left as it was.
C26_MissingFileReservesNothing ==
    (handler \in {"youtube_upload_video", "youtube_set_thumbnail"}
     /\ ~hinp.file)
    => /\ hresult \in {"running", "error"}
       /\ hresult = "running" => hprog = ReturnStep("error")
       /\ ConsumeCalls(hlog) = <<>>
       /\ ~ObtainedClient(hlog)
       /\ Sent(hlog) = {}
       /\ _used = hstart.used
       /\ _date = hstart.date
C26_Witness ==
    /\ handler = "youtube_set_thumbnail"
    /\ ~hinp.file
    /\ hresult = "error"
    /\ hstart.used = 9950
    /\ _used = 9950


\* The handlers C27 names, with the label and the cost it gives for each.
ClaimedReservation ==
    [youtube_search |-> <<"search", 100>>,
     youtube_upload_video |-> <<"video_insert", 1600>>,
     youtube_set_thumbnail |-> <<"thumbnail_set", 50>>,
     youtube_delete_video |-> <<"delete", 50>>,
     youtube_remove_from_playlist |-> <<"delete", 50>>,
     youtube_create_playlist |-> <<"insert", 50>>,
     youtube_add_to_playlist |-> <<"insert", 50>>,
     youtube_post_comment |-> <<"insert", 50>>,
     youtube_reply_to_comment |-> <<"insert", 50>>,
     youtube_get_video |-> <<"list", 1>>,
     youtube_trending |-> <<"list", 1>>,
     youtube_list_comments |-> <<"list", 1>>]
\* The handler has ended: returned a result or raised.
Ended == hresult \notin {"none", "running"}
\* What used is after a reservation of cost in this call: on top of what it
\* was at the call, or on top of zero when the reservation found a new day.
UsedAfterReserving(cost) ==
    (IF _date = hstart.date THEN hstart.used ELSE 0) + cost
\* The handler never calls consume twice, calls it with the claimed label,
\* and a reservation that succeeds debits the claimed cost.
ReservesAsClaimed ==
    /\ Len(ConsumeCalls(hlog)) <= 1
    /\ \A n \in 1 .. Len(hlog) :
           hlog[n].kind = "consume"
           => hlog[n].arg = ClaimedReservation[handler][1]
    /\ ReservedLabels(hlog) # <<>>
       => _used = UsedAfterReserving(ClaimedReservation[handler][2])
    /\ (ObtainedClient(hlog) \/ Sent(hlog) # {} \/ hresult = "ok")
       => Len(ReservedLabels(hlog)) = 1

\* C27 as stated: each handler of one Data API request reserves quota
\* exactly once per invocation, with the label of its request kind. It
\* fails for youtube_upload_video and youtube_set_thumbnail called with a
\* file that does not exist, which reserve nothing.
C27_ReservesExactlyOncePerInvocation ==
    handler \in DOMAIN ClaimedReservation
    => /\ ReservesAsClaimed
       /\ Ended => Len(ConsumeCalls(hlog)) = 1
\* C27, amended: each handler of one Data API request reserves quota
\* exactly once per invocation that passes the handler's test of its file
\* argument, with the label of its request kind, and never more than once.
C27_ReservesOnceWithItsLabel ==
    handler \in DOMAIN ClaimedReservation
    => /\ ReservesAsClaimed
       /\ (Ended /\ hinp.file) => Len(ConsumeCalls(hlog)) = 1
       /\ (Ended /\ ~hinp.file) => Len(ConsumeCalls(hlog)) = 0
C27_Witness ==
    /\ handler = "youtube_upload_video"
    /\ hinp.file
    /\ hresult = "ok"
    /\ hstart.used = 0
    /\ _used = 1600
    /\ ConsumeCalls(hlog) = <<Event("consume", "video_insert", "ok")>>


\* C28: after every authenticate() that returns normally (valid-load,
\* refresh or consent path) the Credentials the token file holds is the one
\* cached and returned; the cache never holds a Credentials newer than the
\* persisted one.
C28_StoreMatchesCache ==
    /\ (acall.op = "authenticate" /\ acall.r.result = "returned")
       => /\ acall.r.cred # None
          /\ acall.r.cache = acall.r.cred
          /\ _load_token(acall.r.file) = acall.r.cred
    /\ _credentials # None => _load_token(token_file) = _credentials
C28_Witness ==
    /\ acall.op = "authenticate"
    /\ acall.r.result = "returned"
    /\ acall.r.consent = "ok"
    /\ acall.pre.file.kind = "json"
    /\ acall.pre.cache # None
    /\ _credentials = acall.r.cred
    /\ _credentials # acall.pre.cache
    /\ token_file = to_json(_credentials)


\* The cost of the reservations in log, each for count 1.
RECURSIVE SumCosts(_)
SumCosts(log) ==
    IF log = <<>> THEN 0
    ELSE QuotaCost(QUOTA_COSTS, Head(log).arg) + SumCosts(Tail(log))

\* C29: a reservation is never refunded: once consume has returned normally
\* inside a handler, used stays incremented by its cost for the rest of the
\* quota day, also when the client construction raises AuthError, the
\* request fails, or the handler returns a parameter error.
C29_ReservationNeverRefunded ==
    (handler # "none" /\ _date = hstart.date)
    => _used = hstart.used + SumCosts(ReservedLabels(hlog))
C29_Witness ==
    /\ handler \in {"youtube_get_channel", "youtube_list_playlists"}
    /\ ~hinp.selector
    /\ hresult = "error"
    /\ Sent(hlog) = {}
    /\ _date = hstart.date
    /\ hstart.used = 9950
    /\ _used = 9951


\* The handler's n-th call is the request method, sent.
IsRequest(log, n, method) == log[n].kind = "request" /\ log[n].arg = method
\* Before its n-th call the handler reserved with label, with success.
ReservedBefore(log, n, label) ==
    \E m \in 1 .. (n - 1) :
        log[m] = Event("consume", label, "ok")
\* The handler sent the request method in this call.
SentMethod(log, method) ==
    \E n \in 1 .. Len(log) : IsRequest(log, n, method)
\* The handler's reservation with label was rejected in this call.
RejectedLabel(log, label) ==
    \E n \in 1 .. Len(log) :
        log[n] = Event("consume", label, "QuotaExhaustedError")

\* C30: youtube_update_video reserves 1 unit ("list") before it fetches the
\* video and 50 units ("update") before it sends the update; the update is
\* never sent unless the 50-unit reservation succeeded; when that
\* reservation is rejected, or the video is not found, the 1-unit debit
\* remains, no update is sent and no 50 units are debited.
C30_UpdateReservesInTwoStages ==
    handler = "youtube_update_video"
    => /\ \A n \in 1 .. Len(hlog) :
             /\ IsRequest(hlog, n, "videos.list")
                 => ReservedBefore(hlog, n, "list")
             /\ IsRequest(hlog, n, "videos.update")
                 => ReservedBefore(hlog, n, "update")
             /\ (hlog[n].kind = "consume" /\ hlog[n].arg = "update")
                 => \E m \in 1 .. (n - 1) :
                       hlog[m] = Event("request", "videos.list", "ok")
       /\ QuotaCost(QUOTA_COSTS, "list") = 1
       /\ QuotaCost(QUOTA_COSTS, "update") = 50
       /\ (hresult = "ok" /\ _date = hstart.date)
          => _used = hstart.used + 1 + 50
       /\ (RejectedLabel(hlog, "update") \/ hresult = "error")
          => /\ ~SentMethod(hlog, "videos.update")
             /\ ReservedLabels(hlog) = <<Event("consume", "list", "ok")>>
             /\ _used = UsedAfterReserving(1)
C30_Witness ==
    /\ handler = "youtube_update_video"
    /\ hresult = "QuotaExhaustedError"
    /\ hlog = <<Event("consume", "list", "ok"),
                Event("client", "youtube", "returned"),
                Event("request", "videos.list", "ok"),
                Event("consume", "update", "QuotaExhaustedError")>>
    /\ hstart.used = 9950
    /\ _used = 9951

====
